---- MODULE Spec2Model ----
(***************************************************************************)
(* Frame pacing of the bevy_directx plugin: the main thread runs the Bevy  *)
(* schedules of one frame after the other (First: wait_for_ready_frame,    *)
(* Render: update_render_target, then the application's render system),    *)
(* while the GPU consumes the command queue on its own.                    *)
(*                                                                         *)
(* The Direct3D 12 / DXGI objects are modelled by what the code relies on: *)
(*   - the command queue is a FIFO of executions, presents and signals;    *)
(*   - a fence holds the last value a processed Signal gave it;            *)
(*   - SetEventOnCompletion sets the event once the fence reaches a value; *)
(*   - the events are auto-reset (CreateEventW(None, false, false, None)): *)
(*     a set event stays set until one wait returns on it;                 *)
(*   - the frame-latency waitable object is a semaphore that is released   *)
(*     once per retired present.                                           *)
(* Alertable wake-ups by APCs, COM reference counts and the API's own      *)
(* validation of command-list states are not modelled.                     *)
(***************************************************************************)
EXTENDS Integers, Sequences, FiniteSets, TLC

VARIABLES
    pc,               \* position of the main thread in the frame
    renderer,         \* render system the app adds to Render: "gpu", "demo" or "none"
    frame,            \* number of the running frame
    frameLog,         \* steps performed so far in the running frame
    hung,             \* the device stopped making progress
    windowExists,     \* a PrimaryWindow entity exists
    windowSize,       \* Window::physical_width / physical_height
    windowMode,       \* Window::mode
    hasTarget,        \* the primary window carries a WindowRenderTarget
    size,             \* WindowRenderTarget::size
    swapchainDesc,    \* what swapchain.GetDesc1 returns
    backBufferIndex,  \* swapchain.GetCurrentBackBufferIndex
    waitObject,       \* count of the frame-latency waitable object
    textures,         \* WindowRenderTarget::textures (<<>> is None)
    rtvs,             \* WindowRenderTarget::rtvs (<<>> is None)
    texGen,           \* number of create_rtvs calls so far
    resizeCalls,      \* number of ResizeBuffers calls so far
    resourceState,    \* state of each back buffer on the queue's timeline
    queue,            \* ID3D12CommandQueue: work submitted and not yet done
    fenceValue,       \* Gpu::fence.GetCompletedValue
    fence_event,      \* Gpu::fence_event is set
    fence_counter,    \* Gpu::fence_counter
    fenceArmed,       \* values SetEventOnCompletion waits for on Gpu::fence
    demoFenceValue,   \* DemoResources::fence.GetCompletedValue
    demoFenceEvent,   \* DemoResources::fence_event is set
    demoFenceCounter, \* DemoResources::fence_counter
    demoArmed,        \* values SetEventOnCompletion waits for on the demo fence
    demoRtv,          \* (texture, descriptor) render_frame got from the target
    demoList,         \* commands recorded in DemoResources::command_list
    lastSignal,       \* values the last signal step gave Signal / SetEventOnCompletion
    systems,          \* systems the plugin has added to the app's schedules
    waitResult,       \* what the last WaitForSingleObjectEx returned
    fault             \* the panic or error that ended the app, if any

vars == <<pc, renderer, frame, frameLog, hung, windowExists, windowSize, windowMode,
          hasTarget, size, swapchainDesc, backBufferIndex, waitObject, textures, rtvs,
          texGen, resizeCalls, resourceState, queue, fenceValue, fence_event,
          fence_counter, fenceArmed, demoFenceValue, demoFenceEvent, demoFenceCounter,
          demoArmed, demoRtv, demoList, lastSignal, systems, waitResult, fault>>

appVars == <<renderer, systems, waitResult, fault>>
windowVars == <<windowExists, windowSize, windowMode>>
targetVars == <<hasTarget, size, swapchainDesc, backBufferIndex, textures, rtvs,
                texGen, resizeCalls>>
gpuFenceVars == <<fenceValue, fence_event, fence_counter, fenceArmed>>
demoFenceVars == <<demoFenceValue, demoFenceEvent, demoFenceCounter, demoArmed>>
demoVars == <<demoFenceVars, demoRtv, demoList>>

----------------------------------------------------------------------------
(* Bounds *)

MaxFrames == 4
MaxDim == 2

(* Program constants *)

SWAPCHAIN_BUFFER_COUNT == 2
MaximumFrameLatency == 1
\* INFINITE is 0xFFFFFFFF, the DWORD -1: no timeout in milliseconds equals it.
INFINITE == 0 - 1
DemoFenceTimeout == 1000
HeapStart == 4096
HeapIncrement == 32

\* Sizes of a window's client area; a minimized window has none.
ClientSizes == (1..MaxDim) \X (1..MaxDim)
Sizes == {<<0, 0>>} \cup ClientSizes
WindowModes == {"Windowed", "BorderlessFullscreen", "SizedFullscreen", "Fullscreen"}
SupportedModes == {"Windowed", "BorderlessFullscreen"}
Slots == 0..(SWAPCHAIN_BUFFER_COUNT - 1)
None == <<>>
NoValue == 0 - 1

----------------------------------------------------------------------------
(* Win32 / D3D12 primitives as the code uses them *)

\* WaitForSingleObjectEx(handle, timeout, alertable) can return: the object is
\* signalled, or the timeout is finite and elapses.
WaitForSingleObjectEx(signalled, timeout) == signalled \/ timeout # INFINITE

\* Its return value: WAIT_OBJECT_0 when the object was signalled, else WAIT_TIMEOUT.
WaitReturns(signalled) == IF signalled THEN "WAIT_OBJECT_0" ELSE "WAIT_TIMEOUT"

\* A panic (unwrap, expect, panic!) or an error handed to the caller ends the app.
Panic(cause) == pc' = "fault" /\ fault' = cause

\* Faulty variant: the frame-latency wait given a finite timeout.
FrameLatencyTimeoutFinite == DemoFenceTimeout

\* Timeouts the code passes to its waits.
FrameLatencyTimeout == INFINITE
CreateSwapchainTimeout == INFINITE
FenceTimeout == INFINITE

\* ID3D12Fence::SetEventOnCompletion(value, event): the event is set at once when
\* the fence has reached the value, else when it does.
SetNow(completed, value) == completed >= value
Arm(armed, completed, value) == IF completed >= value THEN armed ELSE armed \cup {value}

ExecItem(list) == [op |-> "exec", owner |-> list, value |-> 0]
PresentItem == [op |-> "present", owner |-> "swapchain", value |-> 0]
SignalItem(fence, v) == [op |-> "signal", owner |-> fence, value |-> v]

\* The command list `list` is part of a submission the GPU has not finished.
InFlight(list) == \E i \in 1..Len(queue) : queue[i].op = "exec" /\ queue[i].owner = list

----------------------------------------------------------------------------
(* Construction: Gpu::new, setup_resources, and the window the host hands over *)

Init ==
    /\ pc = "build"
    /\ renderer \in {"gpu", "demo", "none"}
    /\ frame = 1
    /\ frameLog = <<>>
    /\ hung = FALSE
    /\ windowExists \in BOOLEAN
    /\ windowSize \in Sizes
    /\ windowMode \in WindowModes
    /\ hasTarget = FALSE
    /\ size = <<0, 0>>
    /\ swapchainDesc = [Width |-> 0, Height |-> 0, BufferCount |-> 0]
    /\ backBufferIndex = 0
    /\ waitObject = 0
    /\ textures = None
    /\ rtvs = None
    /\ texGen = 0
    /\ resizeCalls = 0
    /\ resourceState = [i \in Slots |-> "PRESENT"]
    /\ queue = <<>>
    /\ fenceValue = 0
    /\ fence_event = FALSE
    /\ fence_counter = 0
    /\ fenceArmed = {}
    /\ demoFenceValue = 0
    /\ demoFenceEvent = FALSE
    /\ demoFenceCounter = 0
    /\ demoArmed = {}
    /\ demoRtv = None
    /\ demoList = <<>>
    /\ lastSignal = [signal |-> NoValue, arm |-> NoValue]
    /\ systems = {}
    /\ waitResult = "none"
    /\ fault = "none"

\* BevyDirectXPlugin::build: Gpu::new().expect(..), then the resource and the two
\* systems are added.
build ==
    /\ pc = "build"
    /\ \E ok \in BOOLEAN :
        IF ok
        THEN /\ systems' = {"wait_for_ready_frame", "update_swapchain"}
             /\ pc' = "first"
             /\ UNCHANGED fault
        ELSE /\ Panic("Gpu::new")
             /\ UNCHANGED systems
    /\ UNCHANGED <<renderer, waitResult, frame, frameLog, hung, windowVars, targetVars,
                   waitObject, resourceState, queue, gpuFenceVars, demoVars, lastSignal>>

----------------------------------------------------------------------------
(* The host: window events reach the app between two frames *)

WindowCreated ==
    /\ pc = "first"
    /\ ~windowExists
    /\ windowExists' = TRUE
    /\ UNCHANGED <<pc, appVars, frame, frameLog, hung, windowSize, windowMode,
                   targetVars, waitObject, resourceState, queue, gpuFenceVars,
                   demoVars, lastSignal>>

WindowResized ==
    /\ pc = "first"
    /\ windowExists
    /\ \E s \in Sizes : s # windowSize /\ windowSize' = s
    /\ UNCHANGED <<pc, appVars, frame, frameLog, hung, windowExists, windowMode,
                   targetVars, waitObject, resourceState, queue, gpuFenceVars,
                   demoVars, lastSignal>>

WindowModeChanged ==
    /\ pc = "first"
    /\ windowExists
    /\ \E m \in WindowModes : m # windowMode /\ windowMode' = m
    /\ UNCHANGED <<pc, appVars, frame, frameLog, hung, windowExists, windowSize,
                   targetVars, waitObject, resourceState, queue, gpuFenceVars,
                   demoVars, lastSignal>>

----------------------------------------------------------------------------
(* The device *)

\* Events of `armed` that fire when the fence reaches `v`.
Fired(armed, v) == {a \in armed : a <= v}

GpuExecutes ==
    /\ ~hung
    /\ queue # <<>>
    /\ Head(queue).op = "exec"
    /\ queue' = Tail(queue)
    /\ UNCHANGED <<pc, appVars, frame, frameLog, hung, windowVars, targetVars,
                   waitObject, resourceState, gpuFenceVars, demoVars, lastSignal>>

\* A retired present releases the frame-latency waitable object once.
GpuPresents ==
    /\ ~hung
    /\ queue # <<>>
    /\ Head(queue).op = "present"
    /\ queue' = Tail(queue)
    /\ waitObject' = waitObject + 1
    /\ UNCHANGED <<pc, appVars, frame, frameLog, hung, windowVars, targetVars,
                   resourceState, gpuFenceVars, demoVars, lastSignal>>

\* ID3D12CommandQueue::Signal takes effect: the fence is set to the value and
\* the completion events armed for values it has reached are set.
GpuSignals ==
    /\ ~hung
    /\ queue # <<>>
    /\ Head(queue).op = "signal"
    /\ queue' = Tail(queue)
    /\ LET v == Head(queue).value IN
       IF Head(queue).owner = "gpu"
       THEN /\ fenceValue' = v
            /\ fence_event' = (fence_event \/ Fired(fenceArmed, v) # {})
            /\ fenceArmed' = fenceArmed \ Fired(fenceArmed, v)
            /\ UNCHANGED <<fence_counter, demoFenceVars>>
       ELSE /\ demoFenceValue' = v
            /\ demoFenceEvent' = (demoFenceEvent \/ Fired(demoArmed, v) # {})
            /\ demoArmed' = demoArmed \ Fired(demoArmed, v)
            /\ UNCHANGED <<demoFenceCounter, gpuFenceVars>>
    /\ UNCHANGED <<pc, appVars, frame, frameLog, hung, windowVars, targetVars,
                   waitObject, resourceState, demoRtv, demoList, lastSignal>>

DeviceHangs ==
    /\ ~hung
    /\ hung' = TRUE
    /\ UNCHANGED <<pc, appVars, frame, frameLog, windowVars, targetVars, waitObject,
                   resourceState, queue, gpuFenceVars, demoVars, lastSignal>>

----------------------------------------------------------------------------
(* First: wait_for_ready_frame *)

Log(step) == frameLog' = Append(frameLog, step)

\* Faulty variant: wait_for_ready_frame without the check for a render target.
HasReadyTargetUnchecked == TRUE

\* window.get_single() is Ok: the primary window carries a WindowRenderTarget.
HasReadyTarget == hasTarget

\* No render target yet: the system returns at once.
WaitForReadyFrameNoTarget ==
    /\ pc = "first"
    /\ ~HasReadyTarget
    /\ pc' = "first_done"
    /\ UNCHANGED <<appVars, frame, frameLog, hung, windowVars, targetVars, waitObject,
                   resourceState, queue, gpuFenceVars, demoVars, lastSignal>>

\* Faulty variant: wait_for_ready_frame without the wait on the frame-latency object.
FrameLatencyWaitSkipped ==
    /\ pc = "first"
    /\ HasReadyTarget
    /\ pc' = "wait_fence"
    /\ UNCHANGED <<appVars, frame, frameLog, hung, windowVars, targetVars, waitObject,
                   resourceState, queue, gpuFenceVars, demoVars, lastSignal>>

\* WaitForSingleObjectEx(render_target.wait_object, INFINITE, true)
FrameLatencyWait ==
    /\ pc = "first"
    /\ HasReadyTarget
    /\ WaitForSingleObjectEx(waitObject > 0, FrameLatencyTimeout)
    /\ waitObject' = IF waitObject > 0 THEN waitObject - 1 ELSE waitObject
    /\ waitResult' = WaitReturns(waitObject > 0)
    /\ Log("latency_wait")
    /\ pc' = "wait_fence"
    /\ UNCHANGED <<renderer, systems, fault, frame, hung, windowVars, targetVars, resourceState, queue,
                   gpuFenceVars, demoVars, lastSignal>>

\* Gpu::wait_for_fence: waits on the event only when the fence is behind the counter.
MustWaitForFence == fenceValue < fence_counter

wait_for_fence ==
    /\ pc = "wait_fence"
    /\ IF MustWaitForFence
       THEN /\ WaitForSingleObjectEx(fence_event, FenceTimeout)
            /\ waitResult' = WaitReturns(fence_event)
            /\ fence_event' = FALSE
       ELSE UNCHANGED <<fence_event, waitResult>>
    /\ Log("gpu_fence_wait")
    /\ pc' = "first_done"
    /\ UNCHANGED <<renderer, systems, fault, frame, hung, windowVars, targetVars, waitObject,
                   resourceState, queue, fenceValue, fence_counter, fenceArmed,
                   demoVars, lastSignal>>

\* The schedules of Main between First and Render (Render is inserted after Last).
MainSchedules ==
    /\ pc = "first_done"
    /\ pc' = "update"
    /\ UNCHANGED <<appVars, frame, frameLog, hung, windowVars, targetVars, waitObject,
                   resourceState, queue, gpuFenceVars, demoVars, lastSignal>>

----------------------------------------------------------------------------
(* Render: update_render_target *)

\* The swapchain descriptor update_render_target builds from the window.
SwapchainDescOf(ws) ==
    [Width |-> ws[1], Height |-> ws[2], BufferCount |-> SWAPCHAIN_BUFFER_COUNT]

\* CreateSwapChainForHwnd is handed a zero-sized client area.
DxgiError == [Width |-> 0, Height |-> 0, BufferCount |-> 0]

\* What CreateSwapChainForHwnd / ResizeBuffers make of a description, as GetDesc1
\* returns it afterwards: a zero Width or Height is replaced by the size DXGI
\* takes from the output window, or the call fails.
DxgiDescs(desc) ==
    IF desc.Width = 0 \/ desc.Height = 0
    THEN {DxgiError} \cup {[desc EXCEPT !.Width = s[1], !.Height = s[2]] : s \in ClientSizes}
    ELSE {desc}

\* Faulty variant: create_rtvs without `rtv.ptr += heap_increment`.
NewRtvsNoIncrement == [i \in 1..SWAPCHAIN_BUFFER_COUNT |-> HeapStart]

\* create_rtvs: one texture and one descriptor per swapchain buffer.
NewTextures(gen) == [i \in 1..SWAPCHAIN_BUFFER_COUNT |-> <<gen, i - 1>>]
NewRtvs == [i \in 1..SWAPCHAIN_BUFFER_COUNT |-> HeapStart + (i - 1) * HeapIncrement]

\* The equality check of resize_swapchain_if_needed.
NeedsResize(desc, old) == desc # old

\* window.get_single_mut() fails: nothing to do.
UpdateNoWindow ==
    /\ pc = "update"
    /\ ~windowExists
    /\ pc' = "render"
    /\ UNCHANGED <<appVars, frame, frameLog, hung, windowVars, targetVars, waitObject,
                   resourceState, queue, gpuFenceVars, demoVars, lastSignal>>

\* Unsupported window mode: panic.
UpdateUnsupportedMode ==
    /\ pc = "update"
    /\ windowExists
    /\ windowMode \notin SupportedModes
    /\ Panic("window_mode")
    /\ UNCHANGED <<renderer, systems, waitResult, frame, frameLog, hung, windowVars, targetVars, waitObject,
                   resourceState, queue, gpuFenceVars, demoVars, lastSignal>>

\* Existing target: resize_swapchain_if_needed, then size is set.
UpdateExistingTarget ==
    /\ pc = "update"
    /\ windowExists
    /\ windowMode \in SupportedModes
    /\ hasTarget
    /\ LET desc == SwapchainDescOf(windowSize) IN
       IF NeedsResize(desc, swapchainDesc)
       THEN \E made \in DxgiDescs(desc) :
            /\ resizeCalls' = resizeCalls + 1
            /\ IF made = DxgiError
               THEN \* ResizeBuffers(..).unwrap() panics after the textures were dropped
                    /\ textures' = None
                    /\ rtvs' = None
                    /\ Panic("ResizeBuffers")
                    /\ UNCHANGED <<swapchainDesc, backBufferIndex, texGen,
                                   resourceState, size>>
               ELSE /\ swapchainDesc' = made
                    /\ backBufferIndex' = 0
                    /\ texGen' = texGen + 1
                    /\ textures' = NewTextures(texGen + 1)
                    /\ rtvs' = NewRtvs
                    /\ resourceState' = [i \in Slots |-> "PRESENT"]
                    /\ size' = windowSize
                    /\ pc' = "render"
                    /\ UNCHANGED fault
       ELSE /\ size' = windowSize
            /\ pc' = "render"
            /\ UNCHANGED <<swapchainDesc, backBufferIndex, resizeCalls, texGen, textures,
                           rtvs, resourceState, fault>>
    /\ UNCHANGED <<renderer, systems, waitResult, frame, frameLog, hung, windowVars,
                   hasTarget, waitObject, queue, gpuFenceVars, demoVars, lastSignal>>

\* No target: create_new_swapchain up to its wait on the new waitable object.
CreateSwapchain ==
    /\ pc = "update"
    /\ windowExists
    /\ windowMode \in SupportedModes
    /\ ~hasTarget
    /\ \E made \in DxgiDescs(SwapchainDescOf(windowSize)) :
        IF made = DxgiError
        THEN \* CreateSwapChainForHwnd(..).unwrap() panics
             /\ Panic("CreateSwapChainForHwnd")
             /\ UNCHANGED <<swapchainDesc, backBufferIndex, waitObject>>
        ELSE /\ swapchainDesc' = made
             /\ backBufferIndex' = 0
             /\ waitObject' = MaximumFrameLatency
             /\ pc' = "create_wait"
             /\ UNCHANGED fault
    /\ UNCHANGED <<renderer, systems, waitResult, frame, frameLog, hung, windowVars,
                   hasTarget, size, textures, rtvs, texGen, resizeCalls, resourceState,
                   queue, gpuFenceVars, demoVars, lastSignal>>

\* Faulty variant: create_new_swapchain without its wait on the new waitable object.
CreateSwapchainWaitSkipped ==
    /\ pc = "create_wait"
    /\ texGen' = texGen + 1
    /\ textures' = NewTextures(texGen + 1)
    /\ rtvs' = NewRtvs
    /\ resourceState' = [i \in Slots |-> "PRESENT"]
    /\ size' = windowSize
    /\ hasTarget' = TRUE
    /\ pc' = "render"
    /\ UNCHANGED <<appVars, frame, frameLog, hung, windowVars, swapchainDesc,
                   backBufferIndex, waitObject, resizeCalls, queue, gpuFenceVars,
                   demoVars, lastSignal>>

\* create_new_swapchain from its wait on: RTVs, and the component is inserted.
CreateSwapchainWait ==
    /\ pc = "create_wait"
    /\ WaitForSingleObjectEx(waitObject > 0, CreateSwapchainTimeout)
    /\ waitObject' = IF waitObject > 0 THEN waitObject - 1 ELSE waitObject
    /\ waitResult' = WaitReturns(waitObject > 0)
    /\ Log("latency_wait")
    /\ texGen' = texGen + 1
    /\ textures' = NewTextures(texGen + 1)
    /\ rtvs' = NewRtvs
    /\ resourceState' = [i \in Slots |-> "PRESENT"]
    /\ size' = windowSize
    /\ hasTarget' = TRUE
    /\ pc' = "render"
    /\ UNCHANGED <<renderer, systems, fault, frame, hung, windowVars, swapchainDesc,
                   backBufferIndex, resizeCalls, queue, gpuFenceVars, demoVars, lastSignal>>

----------------------------------------------------------------------------
(* Render, after update_render_target: the application's render system *)

\* WindowRenderTarget::rtv: texture and descriptor of the current back buffer.
Rtv == <<textures[backBufferIndex + 1], rtvs[backBufferIndex + 1]>>

\* Faulty variant: the error of Present is dropped and the frame goes on.
PresentReturnsAndGoesOn(ok) ==
    pc' = "signal" /\ fault' = IF ok THEN fault ELSE "Present"

\* What a call of present does to the thread: a failed Present panics in unwrap.
PresentReturns(ok) == IF ok THEN pc' = "signal" /\ UNCHANGED fault ELSE Panic("Present")

\* WindowRenderTarget::present: Present(1, 0) queues a present and flips the
\* buffers, or fails.
present ==
    /\ pc = "present"
    /\ \E ok \in BOOLEAN :
        /\ queue' = IF ok THEN Append(queue, PresentItem) ELSE queue
        /\ backBufferIndex' = IF ok THEN (backBufferIndex + 1) % SWAPCHAIN_BUFFER_COUNT
                              ELSE backBufferIndex
        /\ PresentReturns(ok)
    /\ Log("present")
    /\ UNCHANGED <<renderer, systems, waitResult, frame, hung, windowVars, hasTarget,
                   size, swapchainDesc, waitObject, textures, rtvs, texGen, resizeCalls,
                   resourceState, gpuFenceVars, demoVars, lastSignal>>

EndFrame ==
    /\ pc = "frame_end"
    /\ frame < MaxFrames
    /\ frame' = frame + 1
    /\ frameLog' = <<>>
    /\ pc' = "first"
    /\ UNCHANGED <<appVars, hung, windowVars, targetVars, waitObject, resourceState,
                   queue, gpuFenceVars, demoVars, lastSignal>>

\* The app has added no render system to Render: the plugin's two systems are all
\* that runs, and the frame submits and presents nothing.
NoRenderSystem ==
    /\ pc = "render"
    /\ renderer = "none"
    /\ pc' = "frame_end"
    /\ UNCHANGED <<appVars, frame, frameLog, hung, windowVars, targetVars, waitObject,
                   resourceState, queue, gpuFenceVars, demoVars, lastSignal>>

(* A render system built from the Gpu API: reset_commands, execute_command_list,
   present, signal_fence. *)

\* Nothing to render to: the system does nothing this frame.
GpuRenderNoTarget ==
    /\ pc = "render"
    /\ renderer = "gpu"
    /\ ~hasTarget
    /\ pc' = "frame_end"
    /\ UNCHANGED <<appVars, frame, frameLog, hung, windowVars, targetVars, waitObject,
                   resourceState, queue, gpuFenceVars, demoVars, lastSignal>>

\* Gpu::reset_commands: command_allocator.Reset, command_list.Reset.
reset_commands ==
    /\ pc = "render"
    /\ renderer = "gpu"
    /\ hasTarget
    /\ Log("reset")
    /\ pc' = "execute"
    /\ UNCHANGED <<appVars, frame, hung, windowVars, targetVars, waitObject,
                   resourceState, queue, gpuFenceVars, demoVars, lastSignal>>

\* Gpu::execute_command_list: command_list.Close, queue.ExecuteCommandLists.
execute_command_list ==
    /\ pc = "execute"
    /\ renderer = "gpu"
    /\ queue' = Append(queue, ExecItem("gpu"))
    /\ frameLog' = frameLog \o <<"close", "execute">>
    /\ pc' = "present"
    /\ UNCHANGED <<appVars, frame, hung, windowVars, targetVars, waitObject,
                   resourceState, gpuFenceVars, demoVars, lastSignal>>

\* Faulty variant: queue.Signal called before the counter is incremented.
SignalFenceValuesSignalFirst(counter) ==
    [counter |-> counter + 1, signal |-> counter, arm |-> counter + 1]

\* Faulty variant: queue.Signal given a value one ahead of the new counter.
SignalFenceValuesAhead(counter) ==
    [counter |-> counter + 1, signal |-> counter + 2, arm |-> counter + 1]

\* Gpu::signal_fence: the counter after the call, and the values handed to
\* queue.Signal and to fence.SetEventOnCompletion.
SignalFenceValues(counter) ==
    [counter |-> counter + 1, signal |-> counter + 1, arm |-> counter + 1]

\* Gpu::signal_fence; either native call may fail, and `?` returns the error.
signal_fence ==
    /\ pc = "signal"
    /\ renderer = "gpu"
    /\ \E outcome \in {"ok", "signal_failed", "arm_failed"} :
        LET v == SignalFenceValues(fence_counter) IN
        /\ fence_counter' = v.counter
        /\ queue' = IF outcome = "signal_failed" THEN queue
                    ELSE Append(queue, SignalItem("gpu", v.signal))
        /\ fence_event' = IF outcome = "ok" /\ SetNow(fenceValue, v.arm)
                          THEN TRUE ELSE fence_event
        /\ fenceArmed' = IF outcome = "ok" THEN Arm(fenceArmed, fenceValue, v.arm)
                         ELSE fenceArmed
        /\ lastSignal' = [signal |-> v.signal,
                          arm |-> IF outcome = "signal_failed" THEN NoValue ELSE v.arm]
        /\ frameLog' = IF outcome = "signal_failed" THEN Append(frameLog, "signal")
                       ELSE frameLog \o <<"signal", "arm">>
        /\ IF outcome = "ok" THEN pc' = "frame_end" /\ UNCHANGED fault
           ELSE Panic("signal_fence")
    /\ UNCHANGED <<renderer, systems, waitResult, frame, hung, windowVars, targetVars, waitObject,
                   resourceState, fenceValue, demoVars>>

(* The demo's render_frame, which paces itself with a fence of its own. *)

\* render_target.single() panics without a render target.
DemoNoTarget ==
    /\ pc = "render"
    /\ renderer = "demo"
    /\ ~hasTarget
    /\ Panic("render_target")
    /\ UNCHANGED <<renderer, systems, waitResult, frame, frameLog, hung, windowVars, targetVars, waitObject,
                   resourceState, queue, gpuFenceVars, demoVars, lastSignal>>

\* get_rtv, then WaitForSingleObjectEx(resources.fence_event, 1000, true).
DemoWait ==
    /\ pc = "render"
    /\ renderer = "demo"
    /\ hasTarget
    /\ demoRtv' = Rtv
    /\ WaitForSingleObjectEx(demoFenceEvent, DemoFenceTimeout)
    /\ waitResult' = WaitReturns(demoFenceEvent)
    /\ demoFenceEvent' = FALSE
    /\ Log("fence_wait")
    /\ pc' = "record"
    /\ UNCHANGED <<renderer, systems, fault, frame, hung, windowVars, targetVars, waitObject,
                   resourceState, queue, gpuFenceVars, demoFenceValue, demoFenceCounter,
                   demoArmed, demoList, lastSignal>>

\* Faulty variant: render_frame without the transition back to PRESENT.
RenderFrameCommandsNoFinalBarrier(rtv) ==
    << <<"SetGraphicsRootSignature">>,
       <<"ResourceBarrier", rtv[1], "PRESENT", "RENDER_TARGET">>,
       <<"OMSetRenderTargets", rtv[2]>>,
       <<"ClearRenderTargetView", rtv[2]>>,
       <<"IASetPrimitiveTopology">>,
       <<"DrawInstanced">> >>

\* The commands render_frame records for the render target (texture, descriptor).
RenderFrameCommands(rtv) ==
    << <<"SetGraphicsRootSignature">>,
       <<"ResourceBarrier", rtv[1], "PRESENT", "RENDER_TARGET">>,
       <<"OMSetRenderTargets", rtv[2]>>,
       <<"ClearRenderTargetView", rtv[2]>>,
       <<"IASetPrimitiveTopology">>,
       <<"DrawInstanced">>,
       <<"ResourceBarrier", rtv[1], "RENDER_TARGET", "PRESENT">> >>

\* command_allocator.Reset, command_list.Reset, the recording, command_list.Close.
DemoRecord ==
    /\ pc = "record"
    /\ renderer = "demo"
    /\ demoList' = RenderFrameCommands(demoRtv)
    /\ frameLog' = frameLog \o <<"reset", "record", "close">>
    /\ pc' = "execute"
    /\ UNCHANGED <<appVars, frame, hung, windowVars, targetVars, waitObject,
                   resourceState, queue, gpuFenceVars, demoFenceVars, demoRtv, lastSignal>>

\* A transition barrier on the queue's timeline: a barrier whose StateBefore is not
\* the resource's state leaves it undefined.
Transition(states, cmd) ==
    IF cmd[1] = "ResourceBarrier" /\ cmd[2][1] = texGen
    THEN [states EXCEPT ![cmd[2][2]] = IF @ = cmd[3] THEN cmd[4] ELSE "UNDEFINED"]
    ELSE states

RECURSIVE Executed(_, _)
Executed(states, cmds) ==
    IF cmds = <<>> THEN states ELSE Executed(Transition(states, Head(cmds)), Tail(cmds))

\* gpu.queue.ExecuteCommandLists(command_list)
DemoExecute ==
    /\ pc = "execute"
    /\ renderer = "demo"
    /\ queue' = Append(queue, ExecItem("demo"))
    /\ resourceState' = Executed(resourceState, demoList)
    /\ Log("execute")
    /\ pc' = "present"
    /\ UNCHANGED <<appVars, frame, hung, windowVars, targetVars, waitObject,
                   gpuFenceVars, demoVars, lastSignal>>

\* The counter after render_frame's submit step, and the values it hands to
\* queue.Signal (before the increment) and to SetEventOnCompletion (after it).
RenderFrameSignalValues(counter) ==
    [signal |-> counter, counter |-> counter + 1, arm |-> counter + 1]

\* queue.Signal(fence, fence_counter); fence_counter += 1; SetEventOnCompletion.
DemoSignal ==
    /\ pc = "signal"
    /\ renderer = "demo"
    /\ LET v == RenderFrameSignalValues(demoFenceCounter) IN
        /\ queue' = Append(queue, SignalItem("demo", v.signal))
        /\ demoFenceCounter' = v.counter
        /\ demoFenceEvent' = IF SetNow(demoFenceValue, v.arm) THEN TRUE ELSE demoFenceEvent
        /\ demoArmed' = Arm(demoArmed, demoFenceValue, v.arm)
        /\ lastSignal' = [signal |-> v.signal, arm |-> v.arm]
    /\ frameLog' = frameLog \o <<"signal", "arm">>
    /\ pc' = "frame_end"
    /\ UNCHANGED <<appVars, frame, hung, windowVars, targetVars, waitObject,
                   resourceState, gpuFenceVars, demoFenceValue, demoRtv, demoList>>

----------------------------------------------------------------------------

Next ==
    \/ build
    \/ WindowCreated \/ WindowResized \/ WindowModeChanged
    \/ GpuExecutes \/ GpuPresents \/ GpuSignals \/ DeviceHangs
    \/ WaitForReadyFrameNoTarget \/ FrameLatencyWait \/ wait_for_fence \/ MainSchedules
    \/ UpdateNoWindow \/ UpdateUnsupportedMode \/ UpdateExistingTarget
    \/ CreateSwapchain \/ CreateSwapchainWait
    \/ NoRenderSystem
    \/ GpuRenderNoTarget \/ reset_commands \/ execute_command_list \/ present
    \/ signal_fence
    \/ DemoNoTarget \/ DemoWait \/ DemoRecord \/ DemoExecute \/ DemoSignal
    \/ EndFrame

Spec == Init /\ [][Next]_vars

----------------------------------------------------------------------------
(* Claims *)

\* The update_render_target about to run resizes: it goes past the equality check
\* of resize_swapchain_if_needed.
AboutToResize ==
    /\ pc = "update"
    /\ windowExists
    /\ windowMode \in SupportedModes
    /\ hasTarget
    /\ NeedsResize(SwapchainDescOf(windowSize), swapchainDesc)

FenceCompleted(owner) == IF owner = "gpu" THEN fenceValue ELSE demoFenceValue

\* C1: whenever Gpu::wait_for_fence has returned (wait_for_ready_frame is done on
\* an existing render target), the fence's completed value is at least
\* fence_counter, and the reset_commands that follows finds no submission of the
\* Gpu's command list still executing.
C1_WaitForFenceReturnsAfterCompletion ==
    /\ (pc = "first_done" /\ hasTarget) => fenceValue >= fence_counter
    /\ (pc = "render" /\ renderer = "gpu" /\ hasTarget) => ~InFlight("gpu")

\* C2: whenever resize_swapchain_if_needed goes past its equality check, every
\* fence value signalled to the queue before has completed on the GPU.
C2_ResizeOnlyWhenSubmittedFramesCompleted ==
    AboutToResize =>
        \A i \in 1..Len(queue) :
            queue[i].op = "signal" => FenceCompleted(queue[i].owner) >= queue[i].value

\* C3: fence_counter starts at 0, only Gpu::signal_fence changes it, each call adds
\* exactly 1, and the value handed to queue.Signal and to SetEventOnCompletion
\* (when the call gets that far) is the new counter.
C3_FenceCounterAdvancesByOne ==
    /\ fence_counter = 0
    /\ [][/\ fence_counter' \in {fence_counter, fence_counter + 1}
          /\ (fence_counter' # fence_counter) => (pc = "signal" /\ renderer = "gpu")
          /\ (pc = "signal" /\ renderer = "gpu" /\ pc' # pc) =>
                /\ fence_counter' = fence_counter + 1
                /\ lastSignal'.signal = fence_counter'
                /\ lastSignal'.arm \in {fence_counter', NoValue}
                /\ (pc' = "frame_end") => lastSignal'.arm = fence_counter']_vars

C3_Witness ==
    /\ fence_counter = 2
    /\ lastSignal = [signal |-> 2, arm |-> 2]
    /\ pc = "frame_end"

\* The main thread is inside one of the pacer's blocking waits.
InLibraryWait ==
    \/ pc = "first" /\ hasTarget
    \/ pc = "wait_fence"
    \/ pc = "create_wait"

C5_SameSizeResizeIsNoOp ==
    [][(pc = "update" /\ pc' = "render" /\ hasTarget /\ windowExists
            /\ windowSize = size) =>
        UNCHANGED <<swapchainDesc, backBufferIndex, textures, rtvs, size, texGen,
                    resizeCalls, resourceState>>]_vars

\* C6: without a WindowRenderTarget wait_for_ready_frame can always return, and
\* its return performs no wait and changes nothing but the thread's position.
C6_NoTargetReturnsImmediately ==
    /\ []((pc = "first" /\ ~hasTarget) => ENABLED WaitForReadyFrameNoTarget)
    /\ [][(pc = "first" /\ ~hasTarget /\ pc' # pc) =>
            /\ pc' = "first_done"
            /\ UNCHANGED <<appVars, frame, frameLog, hung, windowVars, targetVars,
                           waitObject, resourceState, queue, gpuFenceVars, demoVars,
                           lastSignal>>]_vars

C6_Witness ==
    /\ pc = "first_done"
    /\ ~hasTarget
    /\ frame >= 2
    /\ frameLog = <<>>

\* The order of the steps of one frame.
FrameOrder ==
    <<"latency_wait", "fence_wait", "reset", "record", "close", "execute", "present",
      "signal", "arm">>

RECURSIVE Without(_, _)
Without(log, step) ==
    IF log = <<>> THEN <<>>
    ELSE IF Head(log) = step THEN Without(Tail(log), step)
    ELSE <<Head(log)>> \o Without(Tail(log), step)

IsPrefix(a, b) == Len(a) <= Len(b) /\ SubSeq(b, 1, Len(a)) = a

\* C7: the steps the demo's frame has performed so far are the first steps of
\* latency wait, fence wait, reset, record, close, execute, present, signal, arm,
\* in that order, each once; the Gpu's own fence wait of wait_for_ready_frame
\* comes right after the latency wait.
C7_FrameStepsInOrder ==
    renderer = "demo" =>
        /\ IsPrefix(Without(frameLog, "gpu_fence_wait"), FrameOrder)
        /\ \A i \in 1..Len(frameLog) :
                frameLog[i] = "gpu_fence_wait" => (i = 2 /\ frameLog[1] = "latency_wait")

C7_Witness ==
    /\ renderer = "demo"
    /\ frame >= 2
    /\ pc = "frame_end"
    /\ frameLog = <<"latency_wait", "gpu_fence_wait", "fence_wait", "reset", "record",
                    "close", "execute", "present", "signal", "arm">>

IsDrawing(cmd) == cmd[1] \in {"ClearRenderTargetView", "DrawInstanced"}
IsBarrier(cmd, res, before, after) ==
    cmd[1] = "ResourceBarrier" /\ cmd[2] = res /\ cmd[3] = before /\ cmd[4] = after

\* C8: the list render_frame submits transitions the current back buffer
\* PRESENT -> RENDER_TARGET before every clear and draw and RENDER_TARGET ->
\* PRESENT after the last one, on the texture the render target returns for the
\* frame; every back buffer is in PRESENT when present() is called and when a
\* frame starts.
C8_BackBufferBracketedByTransitions ==
    /\ (renderer = "demo" /\ pc = "execute") =>
            \E a, b \in 1..Len(demoList) :
                /\ IsBarrier(demoList[a], Rtv[1], "PRESENT", "RENDER_TARGET")
                /\ IsBarrier(demoList[b], Rtv[1], "RENDER_TARGET", "PRESENT")
                /\ \A i \in 1..Len(demoList) :
                        /\ IsDrawing(demoList[i]) => (a < i /\ i < b)
                        /\ demoList[i][1] = "ResourceBarrier" => i \in {a, b}
                /\ \E i \in 1..Len(demoList) : IsDrawing(demoList[i])
    /\ (pc \in {"present", "first"}) => \A i \in Slots : resourceState[i] = "PRESENT"

C8_Witness ==
    /\ renderer = "demo"
    /\ pc = "present"
    /\ resizeCalls >= 1
    /\ backBufferIndex = 0
    /\ demoRtv = <<<<texGen, 0>>, HeapStart>>

\* C9: when render_frame is past its wait and about to reset its command
\* allocator and list, no submission of that list is still executing.
C9_DemoResetsOnlyAfterCompletion ==
    (renderer = "demo" /\ pc = "record") => ~InFlight("demo")

C9_Witness ==
    /\ renderer = "demo"
    /\ pc = "record"
    /\ frame >= 3
    /\ demoFenceCounter >= 2
    /\ queue # <<>>

\* C10: render_frame arms the completion event for the fence value it signalled.
C10_DemoArmsTheSignalledValue ==
    (renderer = "demo" /\ lastSignal.signal # NoValue) =>
        lastSignal.arm = lastSignal.signal

\* Submissions whose fence signal is still ahead of the fence's completed value.
PendingSignals ==
    {i \in 1..Len(queue) :
        queue[i].op = "signal" /\ queue[i].value > FenceCompleted(queue[i].owner)}

\* The frames submitted to the queue whose fence value has not completed.
FramesInFlight == Cardinality(PendingSignals)

\* The main thread is about to reset (and then re-record) its command allocator
\* and command list.
AboutToReset ==
    \/ pc = "render" /\ renderer = "gpu" /\ hasTarget
    \/ pc = "record" /\ renderer = "demo"

\* C11: at most MaximumFrameLatency (1) submitted frames have a fence value that
\* has not completed, and no command allocator, command list or back buffer is
\* reset or re-recorded while a submission using it is still on the queue.
C11_FramesInFlightWithinBudget ==
    /\ FramesInFlight <= MaximumFrameLatency
    /\ AboutToReset => (queue = <<>> \/ \A i \in 1..Len(queue) : queue[i].op = "signal")

\* C12: a wait that returned without its object having been signalled ends the
\* frame with a fault: the thread goes on to no further step of the frame.
C12_TimedOutWaitIsAFault ==
    waitResult = "WAIT_TIMEOUT" => pc = "fault"

\* The host's request is one the pacer does not support: a window mode other than
\* Windowed and BorderlessFullscreen, or a size with a zero dimension.
UnsupportedRequest ==
    windowMode \notin SupportedModes \/ windowSize[1] = 0 \/ windowSize[2] = 0

\* C13: update_render_target on a window with an unsupported request ends in a
\* fault and leaves the render target, the swapchain and the frame-latency object
\* as they were: nothing is created, resized or handed to DXGI.
C13_UnsupportedRequestIsRejected ==
    [][(pc = "update" /\ windowExists /\ UnsupportedRequest /\ pc' # pc) =>
            /\ pc' = "fault"
            /\ UNCHANGED <<targetVars, waitObject>>]_vars

\* C14: a failed Present ends the app in the step that called it: Present was
\* called once in the frame, no fence signal of the frame was issued, and nothing
\* more is submitted and no frame started afterwards; a failed Gpu::new ends the
\* app in build with no system added.
C14_PresentAndBuildFailuresAreFatal ==
    /\ [](fault = "Present" =>
            /\ pc = "fault"
            /\ frameLog # <<>>
            /\ frameLog[Len(frameLog)] = "present"
            /\ \A i \in 1..(Len(frameLog) - 1) : frameLog[i] \notin {"present", "signal"})
    /\ [](fault = "Gpu::new" =>
            pc = "fault" /\ systems = {} /\ frame = 1 /\ frameLog = <<>> /\ queue = <<>>)
    /\ [][(fault \in {"Present", "Gpu::new"}) =>
            /\ Len(queue') <= Len(queue)
            /\ UNCHANGED <<pc, fault, systems, frame, frameLog, lastSignal, fence_counter,
                           demoFenceCounter, targetVars>>]_vars

C14_Witness ==
    /\ fault = "Present"
    /\ frame >= 2
    /\ lastSignal.signal # NoValue
    /\ InFlight(renderer)

\* C15: the completed value of the Gpu's fence never exceeds fence_counter.
C15_CompletedValueAtMostCounter ==
    fenceValue <= fence_counter

C15_Witness ==
    /\ renderer = "gpu"
    /\ fence_counter >= 2
    /\ fenceValue = fence_counter
    /\ pc = "wait_fence"

\* The highest value queue.Signal has enqueued for the Gpu's fence: the fence's
\* value, or a signal still on the queue.
HighestEnqueued ==
    LET pending == {queue[i].value : i \in {j \in 1..Len(queue) :
                        queue[j].op = "signal" /\ queue[j].owner = "gpu"}} IN
    CHOOSE v \in pending \cup {fenceValue} : \A w \in pending \cup {fenceValue} : w <= v

\* C17: fence_counter never exceeds the highest value enqueued on the queue: a
\* signal_fence whose queue.Signal failed has left the counter as it was, so no
\* wait_for_fence waits for a value that will never be signalled.
C17_CounterAtMostHighestEnqueued ==
    fence_counter <= HighestEnqueued

\* Another system can observe the WindowRenderTarget: the component exists and
\* the app has not panicked.
TargetObservable == hasTarget /\ pc # "fault"

\* C18: an observable WindowRenderTarget has textures and rtvs, each with
\* SWAPCHAIN_BUFFER_COUNT entries: the buffers of the swapchain as it is now, and
\* the descriptors heap start + i increments; from update_render_target on, size
\* is the size the frame requested; rtv() finds both entries of the current slot.
C18_RenderTargetIsComplete ==
    TargetObservable =>
        /\ textures # None /\ rtvs # None
        /\ Len(textures) = SWAPCHAIN_BUFFER_COUNT /\ Len(rtvs) = SWAPCHAIN_BUFFER_COUNT
        /\ \A i \in Slots :
                /\ textures[i + 1] = <<texGen, i>>
                /\ rtvs[i + 1] = HeapStart + i * HeapIncrement
        /\ (pc \in {"render", "record", "execute", "present", "signal", "frame_end"}) =>
                size = windowSize
        /\ backBufferIndex \in Slots
        /\ Rtv = <<<<texGen, backBufferIndex>>, HeapStart + backBufferIndex * HeapIncrement>>

C18_Witness ==
    /\ TargetObservable
    /\ pc = "render"
    /\ resizeCalls >= 2
    /\ backBufferIndex = 1
    /\ size # <<0, 0>>

\* A present is on the queue: its retirement will release the frame-latency object.
PresentPending == \E i \in 1..Len(queue) : queue[i].op = "present"

\* A signal is on the queue that will set Gpu::fence_event when it is processed.
FenceEventPending ==
    \E i \in 1..Len(queue) :
        /\ queue[i].op = "signal"
        /\ queue[i].owner = "gpu"
        /\ Fired(fenceArmed, queue[i].value) # {}

\* The main thread is in a wait whose object is not signalled and that nothing
\* queued will signal: with the thread blocked nothing more is submitted, so the
\* wait never returns however far the device gets.
WaitBlocksForever ==
    \/ pc = "first" /\ hasTarget /\ waitObject = 0 /\ ~PresentPending
    \/ pc = "create_wait" /\ waitObject = 0 /\ ~PresentPending
    \/ pc = "wait_fence" /\ MustWaitForFence /\ ~fence_event /\ ~FenceEventPending

\* C16: on a device that keeps completing what is queued, no call of
\* wait_for_ready_frame, create_new_swapchain or Gpu::wait_for_fence is in a wait
\* that can never return.
C16_NoWaitBlocksForever ==
    ~hung => ~WaitBlocksForever

====
